---------------------------- MODULE Spec2Model ----------------------------
(***************************************************************************)
(* Face-recognition attendance: the two recognition scripts                *)
(* (attendance_recognition2.py with its local CSV log,                     *)
(* attendance_recognition.py posting to the Flask API), the enrolment      *)
(* client add_user.py and the Flask handlers of app.py.                    *)
(*                                                                         *)
(* Text is a sequence of one-character strings.  Distances are in          *)
(* hundredths (0.52 is 52).  Time is in whole seconds: the log keeps       *)
(* '%Y-%m-%d %H:%M:%S', and because a parsed log time L is a whole number  *)
(* of seconds, (now - L).total_seconds() < 3600 holds of a clock reading   *)
(* exactly when it holds of that reading cut to the second.                *)
(***************************************************************************)
EXTENDS Integers, Sequences, FiniteSets, TLC

VARIABLES
    variant,               \* which script runs: "local" (the CSV log) or "api"
    pc,                    \* "load", "loop", "waiting" (inside requests.post), "crashed"
    roster,                \* KNOWN_FACES_DIR as os.listdir returns it
    known_face_encodings,  \* gallery: <<directory index, image index>> per entry
    known_face_names,      \* gallery: display name per entry
    now,                   \* the wall clock, seconds
    ticks,                 \* clock advances so far (bounded)
    file,                  \* content of ATTENDANCE_FILE
    last,                  \* the decision taken for the last face
    students,              \* Student table, rows in id order
    teachers,              \* Teacher table, rows in id order
    attendance,            \* Attendance table, rows in id order
    inflight,              \* JSON payload of the request being sent, or <<>>
    posts,                 \* requests.post calls made by the recognition loop
    printed,               \* last message printed by mark_attendance_via_api
    setup,                 \* add_user.py: "running" or "crashed"
    reply                  \* status of app.py's answer to the last request made
                           \* to it directly (0: none yet)

vars == <<variant, pc, roster, known_face_encodings, known_face_names, now,
          ticks, file, last, students, teachers, attendance, inflight, posts,
          printed, setup, reply>>

-----------------------------------------------------------------------------
(* Program constants *)

TOLERANCE == 52

COOLDOWN_SECONDS == 3600

(* Bounds of the model *)

MaxDirs == 3

MaxTicks == 2

MaxLog == 2

MaxPosts == 2

MaxId == 2

MaxMarks == 1

NL == "\n"

-----------------------------------------------------------------------------
(* Python string operations, on sequences of characters *)

Whitespace == {" ", NL}

upper(c) ==
    CASE c = "a" -> "A" [] c = "b" -> "B" [] c = "l" -> "L" [] OTHER -> c

lower_char(c) ==
    CASE c = "A" -> "a" [] c = "B" -> "b" [] c = "L" -> "l" [] OTHER -> c

isalpha(c) == c \in {"a", "b", "l", "A", "B", "L"}

\* str.replace(old, new) for one-character old and new
replace(s, old, new) == [i \in 1..Len(s) |-> IF s[i] = old THEN new ELSE s[i]]

\* str.title(): a letter that follows a non-letter is upper-cased, any other
\* letter is lower-cased
title(s) ==
    [i \in 1..Len(s) |->
        IF i = 1 \/ ~isalpha(s[i - 1]) THEN upper(s[i]) ELSE lower_char(s[i])]

lower(s) == [i \in 1..Len(s) |-> lower_char(s[i])]

RECURSIVE lstrip(_)
lstrip(s) ==
    IF s # <<>> /\ Head(s) \in Whitespace THEN lstrip(Tail(s)) ELSE s

RECURSIVE rstrip(_)
rstrip(s) ==
    IF s # <<>> /\ s[Len(s)] \in Whitespace
    THEN rstrip(SubSeq(s, 1, Len(s) - 1))
    ELSE s

strip(s) == rstrip(lstrip(s))

\* the fields of s from position from on, i scanning, sep separating
RECURSIVE split_from(_, _, _, _)
split_from(s, sep, from, i) ==
    IF i > Len(s) THEN << SubSeq(s, from, Len(s)) >>
    ELSE IF s[i] = sep
    THEN << SubSeq(s, from, i - 1) >> \o split_from(s, sep, i + 1, i + 1)
    ELSE split_from(s, sep, from, i + 1)

\* str.split(sep): always at least one field
split(s, sep) == split_from(s, sep, 1, 1)

\* the lines of s from position from on, i scanning
RECURSIVE readlines_from(_, _, _)
readlines_from(s, from, i) ==
    IF i > Len(s)
    THEN (IF from > Len(s) THEN <<>> ELSE << SubSeq(s, from, Len(s)) >>)
    ELSE IF s[i] = NL
    THEN << SubSeq(s, from, i) >> \o readlines_from(s, i + 1, i + 1)
    ELSE readlines_from(s, from, i + 1)

\* file.readlines(): every line keeps its terminating newline
readlines(s) == readlines_from(s, 1, 1)

\* now.strftime('%Y-%m-%d %H:%M:%S'): the clock cut to the second, written
\* in digits (no comma, no blank at either end)
RECURSIVE strftime(_)
strftime(t) ==
    IF t < 10 THEN <<ToString(t)>>
    ELSE Append(strftime(t \div 10), ToString(t % 10))

Digits == {ToString(d) : d \in 0..9}

digit(c) == CHOOSE d \in 0..9 : ToString(d) = c

RECURSIVE digits_value(_)
digits_value(s) ==
    IF Len(s) = 1 THEN digit(s[1])
    ELSE 10 * digits_value(SubSeq(s, 1, Len(s) - 1)) + digit(s[Len(s)])

\* datetime.strptime(s, '%Y-%m-%d %H:%M:%S'): the time, or -1 for ValueError
strptime(s) ==
    IF s # <<>> /\ \A i \in 1..Len(s) : s[i] \in Digits
    THEN digits_value(s)
    ELSE -1


-----------------------------------------------------------------------------
(* The roster on disk and load_known_faces *)

\* One sub-directory of KNOWN_FACES_DIR: its name and, per image file in
\* os.listdir order, whether face_encodings finds a face in it
Dir(n, imgs) == [name |-> n, images |-> imgs]

Dirs ==
    { Dir(<<"a", "_", "l">>, <<TRUE>>),
      Dir(<<"a", "_", "l">>, <<FALSE, TRUE, TRUE>>),
      Dir(<<"l", ",", "a">>, <<TRUE>>),
      Dir(<<"b">>, <<FALSE>>),
      Dir(<<".", "a">>, <<TRUE>>) }

\* os.listdir never returns one name twice
AllRosters ==
    { r \in UNION { [1..n -> Dirs] : n \in 0..MaxDirs } :
        \A i, j \in 1..Len(r) : i # j => r[i].name # r[j].name }

\* the rosters the recognition loop is run with: nothing enrolled, nobody
\* with a usable image, one person with several images, two people
Rosters ==
    { <<>>,
      << Dir(<<"b">>, <<FALSE>>) >>,
      << Dir(<<".", "a">>, <<TRUE>>), Dir(<<"a", "_", "l">>, <<TRUE>>) >>,
      << Dir(<<"a", "_", "l">>, <<FALSE, TRUE, TRUE>>) >>,
      << Dir(<<"a", "_", "l">>, <<TRUE>>), Dir(<<"l", ",", "a">>, <<TRUE>>) >> }

startswith(s, c) == s # <<>> /\ s[1] = c

\* person_dir with a fault: it stops at the first image that encodes
RECURSIVE person_dir_first_only(_, _, _)
person_dir_first_only(d, images, k) ==
    IF k > Len(images) THEN <<>>
    ELSE IF images[k] THEN << <<d, k>> >>
    ELSE person_dir_first_only(d, images, k + 1)

\* the inner loop over one person's images, from image k on: every image
\* that yields an encoding is appended
RECURSIVE person_dir(_, _, _)
person_dir(d, images, k) ==
    IF k > Len(images) THEN <<>>
    ELSE (IF images[k] THEN << <<d, k>> >> ELSE <<>>)
         \o person_dir(d, images, k + 1)

\* the outer loop, from directory d on: hidden names are skipped
RECURSIVE load_known_faces(_, _)
load_known_faces(r, d) ==
    IF d > Len(r) THEN <<>>
    ELSE (IF startswith(r[d].name, ".") THEN <<>>
          ELSE person_dir(d, r[d].images, 1))
         \o load_known_faces(r, d + 1)

display_name(n) == title(replace(n, "_", " "))

-----------------------------------------------------------------------------
(* Matching one face against the gallery *)

\* what face_recognition.face_distance may return for a gallery entry
DistVals == {40, 52, 60}

FaceDistances == [1..Len(known_face_encodings) -> DistVals]

\* face_recognition.compare_faces: distance <= tolerance, per entry
compare_faces(face_distances, tolerance) ==
    [i \in 1..Len(face_distances) |-> face_distances[i] <= tolerance]

\* argmin_scan with a fault: a later equal value replaces the best so far
RECURSIVE argmin_scan_last(_, _, _)
argmin_scan_last(a, i, best) ==
    IF i > Len(a) THEN best
    ELSE argmin_scan_last(a, i + 1, IF a[i] <= a[best] THEN i ELSE best)

\* np.argmin: the first index holding the minimum
RECURSIVE argmin_scan(_, _, _)
argmin_scan(a, i, best) ==
    IF i > Len(a) THEN best
    ELSE argmin_scan(a, i + 1, IF a[i] < a[best] THEN i ELSE best)

argmin(a) == argmin_scan(a, 2, 1)

\* is_match with a fault: the strict comparison is left out
is_match_inclusive(face_distances, best_match_index) ==
    compare_faces(face_distances, TOLERANCE)[best_match_index]

\* the final decision of the loop
is_match(face_distances, best_match_index) ==
    /\ compare_faces(face_distances, TOLERANCE)[best_match_index]
    /\ face_distances[best_match_index] < TOLERANCE

\* the loop's variables after a face: face_distances, best_match_index and
\* how the face was decided
NoDecision ==
    [face_distances |-> <<>>, best_match_index |-> 0, outcome |-> "Scanning..."]

Decision(fd, b, o) ==
    [face_distances |-> fd, best_match_index |-> b, outcome |-> o]

-----------------------------------------------------------------------------
(* attendance_recognition2.py: the local log *)

Header == <<"N", "a", "m", "e", ",", " ",
            "T", "i", "m", "e", "s", "t", "a", "m", "p", NL>>

\* the body of the try block for one line: TRUE when the line is counted
\* as logged within the last hour at clock reading t; an IndexError or a
\* ValueError is swallowed by the bare except
line_is_recent(line, t) ==
    LET entry == split(line, ",") IN
    /\ Len(entry) >= 2
    /\ LET log_time == strptime(strip(entry[2])) IN
       log_time # -1 /\ t - log_time < COOLDOWN_SECONDS

\* the names log_attendance finds logged within the last hour
recently_logged(f, t) ==
    LET log_data == readlines(f) IN
    { strip(split(log_data[i], ",")[1]) :
        i \in { j \in 1..Len(log_data) : line_is_recent(log_data[j], t) } }

\* f.writelines(f'\n{name}, {dt_string}')
log_line(name, t) == <<NL>> \o name \o <<",", " ">> \o strftime(t)

\* lines appended so far
LogCount(f) == Cardinality({i \in 1..Len(f) : f[i] = NL}) - 1

-----------------------------------------------------------------------------
(* Start-up *)

Init ==
    /\ variant \in {"local", "api"}
    /\ pc = "load"
    /\ roster \in Rosters
    /\ known_face_encodings = <<>>
    /\ known_face_names = <<>>
    /\ now = 0
    /\ ticks = 0
    /\ file = Header
    /\ last = NoDecision
    /\ students = <<>>
    /\ teachers = <<>>
    /\ attendance = <<>>
    /\ inflight = <<>>
    /\ posts = 0
    /\ printed = ""
    /\ setup = "running"
    /\ reply = 0

api_vars == <<students, teachers, attendance, inflight, posts, printed, setup,
              reply>>

\* known_face_encodings, known_face_names = load_known_faces()
LoadKnownFaces ==
    /\ pc = "load"
    /\ LET encodings == load_known_faces(roster, 1) IN
       /\ known_face_encodings' = encodings
       /\ known_face_names' =
              [i \in 1..Len(encodings) |->
                  display_name(roster[encodings[i][1]].name)]
    /\ pc' = "loop"
    /\ UNCHANGED <<variant, roster, now, ticks, file, last>>
    /\ UNCHANGED api_vars

\* time passes between two frames
Steps == {COOLDOWN_SECONDS - 1, COOLDOWN_SECONDS}

Tick(d) ==
    /\ pc \in {"loop", "waiting"}
    /\ ticks < MaxTicks
    /\ now' = now + d
    /\ ticks' = ticks + 1
    /\ UNCHANGED <<variant, pc, roster, known_face_encodings, known_face_names,
                   file, last>>
    /\ UNCHANGED api_vars

-----------------------------------------------------------------------------------------------------------------------------------------------------
(* attendance_recognition2.py: one face of one frame.  drift is the time   *)
(* from the clock reading of the age test to the reading that is written;  *)
(* write_ok is whether the append to the log succeeds.                     *)

RecognizeLocal ==
    /\ variant = "local"
    /\ pc = "loop"
    /\ UNCHANGED <<variant, roster, known_face_encodings, known_face_names, ticks>>
    /\ UNCHANGED api_vars
    /\ LET recent == recently_logged(file, now) IN
       \E face_distances \in FaceDistances :
       IF Len(known_face_encodings) = 0
       THEN \* np.argmin of an empty array raises ValueError
            /\ pc' = "crashed"
            /\ last' = Decision(face_distances, 0, "ValueError")
            /\ UNCHANGED <<now, file>>
       ELSE LET best_match_index == argmin(face_distances)
                name == known_face_names[best_match_index]
            IN
            IF ~is_match(face_distances, best_match_index)
            THEN /\ last' = Decision(face_distances, best_match_index, "Unknown")
                 /\ UNCHANGED <<pc, now, file>>
            ELSE IF name \in recent
            THEN \* log_attendance returns False
                 /\ last' = Decision(face_distances, best_match_index, "Suppressed")
                 /\ UNCHANGED <<pc, now, file>>
            ELSE /\ LogCount(file) < MaxLog
                 /\ \E drift \in {0, 1}, write_ok \in BOOLEAN :
                    /\ now' = now + drift
                    /\ IF write_ok
                       THEN /\ file' = file \o log_line(name, now + drift)
                            /\ last' = Decision(face_distances, best_match_index,
                                                "Accepted")
                            /\ pc' = pc
                       ELSE \* the OSError leaves log_attendance and the loop
                            /\ file' = file
                            /\ last' = Decision(face_distances, best_match_index,
                                                "OSError")
                            /\ pc' = "crashed"

-----
(* app.py *)

Row(i, f, n) == [id |-> i, face_id |-> f, name |-> n]

face_ids(table) == {table[i].face_id : i \in 1..Len(table)}

\* the id the database gives the next row: an INTEGER PRIMARY KEY of SQLite
\* is one more than the largest id in the table
next_id(table) == IF table = <<>> THEN 1 ELSE table[Len(table)].id + 1

\* POST /api/students and POST /api/teachers on table: <<status, table'>>
handle_post(table, data) ==
    IF "name" \notin DOMAIN data \/ "face_id" \notin DOMAIN data
    THEN <<400, table>>
    ELSE IF data.face_id \in face_ids(table)
    THEN <<409, table>>
    ELSE <<201, Append(table, Row(next_id(table), data.face_id, data.name))>>

\* the position in table of the row with this id, 0 when there is none
\* (get_or_404 then answers 404)
row_index(table, id) ==
    IF \E i \in 1..Len(table) : table[i].id = id
    THEN CHOOSE i \in 1..Len(table) : table[i].id = id
    ELSE 0

\* handle_put with a fault: the name set before the face_id test is stored
\* although the request is answered 409
handle_put_keeps_name(table, id, data) ==
    LET i == row_index(table, id) IN
    IF i = 0 THEN <<404, table>>
    ELSE LET named == IF "name" \in DOMAIN data
                      THEN [table EXCEPT ![i].name = data.name]
                      ELSE table
         IN
         IF "face_id" \in DOMAIN data
         THEN IF data.face_id \in face_ids(named)
                 /\ named[i].face_id # data.face_id
              THEN <<409, named>>
              ELSE <<200, [named EXCEPT ![i].face_id = data.face_id]>>
         ELSE <<200, named>>

\* PUT /api/students/<id> and PUT /api/teachers/<id> on table:
\* <<status, table'>>.  named is the session after student.name is set; the
\* 409 returns without a commit, and the session is discarded with the
\* request, so the table stays as it was
handle_put(table, id, data) ==
    LET i == row_index(table, id) IN
    IF i = 0 THEN <<404, table>>
    ELSE LET named == IF "name" \in DOMAIN data
                      THEN [table EXCEPT ![i].name = data.name]
                      ELSE table
         IN
         IF "face_id" \in DOMAIN data
         THEN IF data.face_id \in face_ids(named)
                 /\ named[i].face_id # data.face_id
              THEN <<409, table>>
              ELSE <<200, [named EXCEPT ![i].face_id = data.face_id]>>
         ELSE <<200, named>>

\* DELETE /api/students/<id> and DELETE /api/teachers/<id> on table:
\* <<status, table'>>
handle_delete(table, id) ==
    LET i == row_index(table, id) IN
    IF i = 0 THEN <<404, table>>
    ELSE <<200, SubSeq(table, 1, i - 1) \o SubSeq(table, i + 1, Len(table))>>

\* mark_attendance with a fault: the is_known test is missing
mark_attendance_unchecked(data, t) ==
    IF "face_id" \notin DOMAIN data \/ data.face_id = <<>>
    THEN <<400, attendance>>
    ELSE <<201, Append(attendance,
                   [person_face_id |-> data.face_id, status |-> "Present",
                    timestamp |-> t])>>

\* POST /api/attendance/mark at time t: <<status, attendance'>>
mark_attendance(data, t) ==
    IF "face_id" \notin DOMAIN data \/ data.face_id = <<>>
    THEN <<400, attendance>>
    ELSE IF data.face_id \in face_ids(students) \cup face_ids(teachers)
    THEN <<201, Append(attendance,
                   [person_face_id |-> data.face_id, status |-> "Present",
                    timestamp |-> t])>>
    ELSE <<404, attendance>>

-----------------------------------------------------------------------------
(* What can come back from requests.post *)

\* a response: its status code and what its body is
Response(s, b) == [kind |-> "response", status |-> s, body |-> b]

\* answers that do not come from app.py's handlers (a proxy, another server)
ForeignResponses ==
    {Response(s, b) : s \in {409, 500},
                      b \in {"error", "no error field", "not JSON"}}

\* the request is answered by app.py, is refused (ConnectionError), fails in
\* another way (any other exception of requests), or is answered by another
\* party
Nets == {[kind |-> "app"], [kind |-> "refused"], [kind |-> "failed"]}
            \cup ForeignResponses

\* the body app.py sends with a status
app_body(status) == IF status = 201 THEN "no error field" ELSE "error"

-----------------------------------------------------------------------------
(* attendance_recognition.py *)

\* api_outcome with a fault: the final except clause is missing
api_outcome_uncaught(r) ==
    IF r.kind = "refused" THEN "[API FATAL]"
    ELSE IF r.kind = "failed" THEN "raised"
    ELSE IF r.status = 201 THEN "[API SUCCESS]"
    ELSE IF r.body = "not JSON" THEN "raised"
    ELSE "[API FAIL]"

\* mark_attendance_via_api after requests.post returned r or raised: the
\* message printed, or "raised" when an exception leaves the function.
\* response.json() raises on a body that is not JSON; except Exception
\* catches that and every failure of requests other than ConnectionError
api_outcome(r) ==
    IF r.kind = "refused" THEN "[API FATAL]"
    ELSE IF r.kind = "failed" THEN "[API ERROR]"
    ELSE IF r.status = 201 THEN "[API SUCCESS]"
    ELSE IF r.body = "not JSON" THEN "[API ERROR]"
    ELSE "[API FAIL]"

\* the payload of mark_attendance_via_api
payload(face_id_name) == [face_id |-> replace(lower(face_id_name), " ", "_")]

\* one face of one frame, up to the call of requests.post
RecognizeApi(face_distances) ==
    /\ variant = "api"
    /\ pc = "loop"
    /\ UNCHANGED <<variant, roster, known_face_encodings, known_face_names,
                   now, ticks, file>>
    /\ UNCHANGED <<students, teachers, attendance, printed, setup, reply>>
    /\ IF Len(known_face_encodings) = 0
       THEN \* np.argmin of an empty array raises ValueError
            /\ pc' = "crashed"
            /\ last' = Decision(face_distances, 0, "ValueError")
            /\ UNCHANGED <<inflight, posts>>
       ELSE LET best_match_index == argmin(face_distances)
                name == known_face_names[best_match_index]
            IN
            IF ~is_match(face_distances, best_match_index)
            THEN /\ last' = Decision(face_distances, best_match_index, "Unknown")
                 /\ UNCHANGED <<pc, inflight, posts>>
            ELSE /\ posts < MaxPosts
                 /\ posts' = posts + 1
                 /\ inflight' = payload(name)
                 /\ pc' = "waiting"
                 /\ last' = Decision(face_distances, best_match_index, "Accepted")

\* requests.post returns or raises, and mark_attendance_via_api handles it
Respond(net) ==
    /\ pc = "waiting"
    /\ LET served == mark_attendance(inflight, now)
           r == IF net.kind = "app"
                THEN Response(served[1], app_body(served[1]))
                ELSE net
       IN
       /\ attendance' = IF net.kind = "app" THEN served[2] ELSE attendance
       /\ printed' = api_outcome(r)
       /\ pc' = IF api_outcome(r) = "raised" THEN "crashed" ELSE "loop"
    /\ inflight' = <<>>
    /\ UNCHANGED <<variant, roster, known_face_encodings, known_face_names,
                   now, ticks, file, last, students, teachers, posts, setup,
                   reply>>

-----------------------------------------------------------------------------
(* add_user.py *)

\* add_user after requests.post returned r or raised: only ConnectionError
\* is caught
add_user_outcome(r) ==
    IF r.kind = "refused" THEN "FATAL"
    ELSE IF r.kind = "failed" THEN "raised"
    ELSE IF r.status = 201 THEN "SUCCESS"
    ELSE IF r.status = 409 THEN "SKIPPED"
    ELSE IF r.body = "not JSON" THEN "raised"
    ELSE "FAILED"

\* the people the script may enrol
Users ==
    { [name |-> <<"A", " ", "L">>, face_id |-> <<"a", "_", "l">>] }

\* add_user(url, name, face_id)
AddUser(url, user, net) ==
    /\ variant = "api"
    /\ setup = "running"
    /\ LET table == IF url = "students" THEN students ELSE teachers
           served == handle_post(table, user)
           r == IF net.kind = "app"
                THEN Response(served[1], app_body(served[1]))
                ELSE net
           table2 == IF net.kind = "app" THEN served[2] ELSE table
       IN
       /\ students' = IF url = "students" THEN table2 ELSE students
       /\ teachers' = IF url = "teachers" THEN table2 ELSE teachers
       /\ setup' = IF add_user_outcome(r) = "raised" THEN "crashed" ELSE "running"
    /\ UNCHANGED <<variant, pc, roster, known_face_encodings, known_face_names,
                   now, ticks, file, last, attendance, inflight, posts, printed,
                   reply>>

-----------------------------------------------------------------------------

Next ==
    \/ LoadKnownFaces
    \/ \E d \in Steps : Tick(d)
    \/ RecognizeLocal
    \/ \E face_distances \in FaceDistances : RecognizeApi(face_distances)
    \/ \E net \in Nets : Respond(net)
    \/ \E url \in {"students", "teachers"}, user \in Users, net \in Nets :
          AddUser(url, user, net)

Spec == Init /\ [][Next]_vars

\* start-up alone, over every roster of up to MaxDirs directories
InitLoad ==
    /\ variant \in {"local", "api"}
    /\ pc = "load"
    /\ roster \in AllRosters
    /\ known_face_encodings = <<>>
    /\ known_face_names = <<>>
    /\ now = 0
    /\ ticks = 0
    /\ file = Header
    /\ last = NoDecision
    /\ students = <<>>
    /\ teachers = <<>>
    /\ attendance = <<>>
    /\ inflight = <<>>
    /\ posts = 0
    /\ printed = ""
    /\ setup = "running"
    /\ reply = 0

NextLoad == LoadKnownFaces

SpecLoad == InitLoad /\ [][NextLoad]_vars

-----------------------------------------------------------------------------
(* app.py alone: requests made to the handlers directly *)

Names == { <<"A", " ", "L">>, <<"B">> }

FaceIds == { <<>>, <<"a", "_", "l">>, <<"b">> }

\* JSON bodies of a POST on /api/students or /api/teachers
PostData ==
    {[name |-> n, face_id |-> f] : n \in Names, f \in FaceIds}
        \cup {[name |-> n] : n \in Names}

\* JSON bodies of a PUT on /api/students/<id> or /api/teachers/<id>
PutData ==
    {[name |-> n, face_id |-> f] : n \in Names, f \in FaceIds}
        \cup {[name |-> n] : n \in Names}
        \cup {[face_id |-> f] : f \in FaceIds}

\* JSON bodies of a POST on /api/attendance/mark
MarkData == {[face_id |-> f] : f \in FaceIds} \cup {[name |-> <<"B">>]}

TableOf(url) == IF url = "students" THEN students ELSE teachers

client_vars == <<variant, pc, roster, known_face_encodings, known_face_names,
                 now, ticks, file, last, inflight, posts, printed, setup>>

InitApp ==
    /\ variant = "api"
    /\ pc = "load"
    /\ roster = <<>>
    /\ known_face_encodings = <<>>
    /\ known_face_names = <<>>
    /\ now = 0
    /\ ticks = 0
    /\ file = Header
    /\ last = NoDecision
    /\ students = <<>>
    /\ teachers = <<>>
    /\ attendance = <<>>
    /\ inflight = <<>>
    /\ posts = 0
    /\ printed = ""
    /\ setup = "running"
    /\ reply = 0

\* handle_students / handle_teachers, method POST
Post(url, data) ==
    LET served == handle_post(TableOf(url), data) IN
    /\ served[1] = 201 => next_id(TableOf(url)) <= MaxId
    /\ students' = IF url = "students" THEN served[2] ELSE students
    /\ teachers' = IF url = "teachers" THEN served[2] ELSE teachers
    /\ reply' = served[1]
    /\ UNCHANGED attendance
    /\ UNCHANGED client_vars

\* handle_student_by_id / handle_teacher_by_id, method PUT
Put(url, id, data) ==
    LET served == handle_put(TableOf(url), id, data) IN
    /\ students' = IF url = "students" THEN served[2] ELSE students
    /\ teachers' = IF url = "teachers" THEN served[2] ELSE teachers
    /\ reply' = served[1]
    /\ UNCHANGED attendance
    /\ UNCHANGED client_vars

\* handle_student_by_id / handle_teacher_by_id, method DELETE
Delete(url, id) ==
    LET served == handle_delete(TableOf(url), id) IN
    /\ students' = IF url = "students" THEN served[2] ELSE students
    /\ teachers' = IF url = "teachers" THEN served[2] ELSE teachers
    /\ reply' = served[1]
    /\ UNCHANGED attendance
    /\ UNCHANGED client_vars

\* mark_attendance
Mark(data) ==
    LET served == mark_attendance(data, now) IN
    /\ served[1] = 201 => Len(attendance) < MaxMarks
    /\ attendance' = served[2]
    /\ reply' = served[1]
    /\ UNCHANGED <<students, teachers>>
    /\ UNCHANGED client_vars

Urls == {"students", "teachers"}

\* the table the handlers of url never touch
OtherTable(url) == IF url = "students" THEN teachers ELSE students

\* the student endpoints or the teacher endpoints: the handlers of one
\* table neither read nor write the other, so a run uses one of the two
NextCrud ==
    \/ \E url \in Urls, data \in PostData :
          OtherTable(url) = <<>> /\ Post(url, data)
    \/ \E url \in Urls, id \in 1..MaxId, data \in PutData :
          OtherTable(url) = <<>> /\ Put(url, id, data)
    \/ \E url \in Urls, id \in 1..MaxId :
          OtherTable(url) = <<>> /\ Delete(url, id)

SpecCrud == InitApp /\ [][NextCrud]_vars

\* bodies that enrol or rename to one name
OneName(D) == {data \in D : "name" \in DOMAIN data => data.name = <<"B">>}

\* the attendance endpoint, while people are enrolled, changed and removed
NextMark ==
    \/ \E url \in Urls, data \in OneName(PostData) : Post(url, data)
    \/ \E url \in Urls, id \in 1..MaxId, data \in OneName(PutData) :
          Put(url, id, data)
    \/ \E url \in Urls, id \in 1..MaxId : Delete(url, id)
    \/ \E data \in MarkData : Mark(data)

SpecMark == InitApp /\ [][NextMark]_vars


-----------------------------------------------------------------------------
(* Reading the state *)

\* the time of line if it is the log entry of name ("name, time"), else -1
EntryTime(line, name) ==
    LET text == rstrip(line)
        n == Len(name)
    IN
    IF Len(text) > n + 2 /\ SubSeq(text, 1, n + 2) = name \o <<",", " ">>
    THEN strptime(SubSeq(text, n + 3, Len(text)))
    ELSE -1

\* the times of the log entries of name, in file order
EntryTimes(f, name) ==
    LET log_data == readlines(f)
        hits == SelectSeq([i \in 1..Len(log_data) |-> EntryTime(log_data[i], name)],
                          LAMBDA t : t # -1)
    IN hits

GalleryNames == {known_face_names[i] : i \in 1..Len(known_face_names)}

Matched(d) == d.best_match_index # 0 /\ is_match(d.face_distances, d.best_match_index)

\* a step of the local loop that decided a face
LocalFaceStep ==
    /\ variant = "local"
    /\ pc = "loop"
    /\ ticks' = ticks
    /\ <<last, file, pc>>' # <<last, file, pc>>

\* a step of either loop that decided a face
FaceStep ==
    /\ pc = "loop"
    /\ ticks' = ticks
    /\ <<last, file, pc, posts>>' # <<last, file, pc, posts>>

-----------------------------------------------------------------------------
(* The claims *)

\* C1: the local log never holds two entries of one identity whose recorded
\* times are less than the cooldown window (3600 s) apart.
C1_NoTwoEntriesWithinCooldown ==
    \A name \in GalleryNames :
       LET times == EntryTimes(file, name) IN
       \A i, j \in 1..Len(times) :
          i < j => times[j] - times[i] >= COOLDOWN_SECONDS

\* C2: the attendance store of the API never holds two records of one
\* face_id whose timestamps are less than one cooldown window apart.
C2_OneRecordPerCooldown ==
    \A i, j \in 1..Len(attendance) :
       (i < j /\ attendance[i].person_face_id = attendance[j].person_face_id)
       => attendance[j].timestamp - attendance[i].timestamp >= COOLDOWN_SECONDS

\* C3: a face whose least distance to the gallery is at or above the
\* threshold is decided Unknown and emits nothing: the log is not appended
\* to, nothing is posted, the loop goes on.
C3_AtOrAboveThresholdIsUnknown ==
    [][ ( /\ FaceStep
          /\ last'.best_match_index # 0
          /\ \A i \in 1..Len(last'.face_distances) :
                last'.face_distances[i] >= TOLERANCE )
        => ( /\ last'.outcome = "Unknown"
             /\ file' = file
             /\ posts' = posts
             /\ inflight' = inflight
             /\ attendance' = attendance
             /\ pc' = "loop" ) ]_vars

\* C3 witness: with an entry in the log, a face at exactly the threshold
\* was decided Unknown
C3_Witness ==
    /\ variant = "local"
    /\ LogCount(file) > 0
    /\ last.outcome = "Unknown"
    /\ last.face_distances[last.best_match_index] = TOLERANCE

\* C4: with an empty gallery every face is decided Unknown and the loop
\* goes on without an error.
C4_EmptyGalleryIsUnknown ==
    (pc # "load" /\ Len(known_face_encodings) = 0 /\ last # NoDecision)
    => (last.outcome = "Unknown" /\ pc # "crashed")

\* C5: a recognition of an identity that has a log entry less than the
\* cooldown window old appends nothing; one whose entries are all at least
\* the window old (or that has none) is accepted and appended with the new
\* time, provided the append itself succeeds.
C5_SuppressedInsideWindowAcceptedAfter ==
    [][ (LocalFaceStep /\ Matched(last') /\ last'.outcome # "OSError")
        => LET name == known_face_names[last'.best_match_index]
               times == EntryTimes(file, name)
               inside == \E i \in 1..Len(times) : now - times[i] < COOLDOWN_SECONDS
           IN
           IF inside
           THEN file' = file /\ last'.outcome = "Suppressed"
           ELSE file' = file \o log_line(name, now') /\ last'.outcome = "Accepted"
      ]_vars

\* C6: whatever comes back from the sink (201, 409, any other status, a body
\* that is not JSON or has no error field, a refused connection, another
\* failure), mark_attendance_via_api returns to the loop, posts nothing
\* again, and prints success exactly for a 201.
C6_SinkFailureStaysInTheSink ==
    [][ \A net \in Nets :
          Respond(net) =>
            LET status == IF net.kind = "app" THEN mark_attendance(inflight, now)[1]
                          ELSE IF net.kind = "response" THEN net.status
                          ELSE 0
            IN
            /\ pc' = "loop"
            /\ posts' = posts
            /\ inflight' = <<>>
            /\ (printed' = "[API SUCCESS]") <=> (status = 201)
            /\ (net.kind = "refused") => printed' = "[API FATAL]"
            /\ (status = 409 /\ net.body # "not JSON") => printed' = "[API FAIL]"
      ]_vars

\* C6 witness: a failure that only except Exception catches was printed and
\* the loop goes on
C6_Witness ==
    /\ variant = "api"
    /\ pc = "loop"
    /\ posts > 0
    /\ printed = "[API ERROR]"

\* C7: while a delivery has not completed, the recognition path can still
\* decide the next face.
C7_RecognitionNeverStalls ==
    (variant = "api" /\ inflight # <<>>)
    => ENABLED (\E face_distances \in FaceDistances : RecognizeApi(face_distances))

\* C8: a face that matches below the threshold and has no log entry inside
\* the cooldown window is decided Accepted and its dedup record is set to the
\* current time, whether or not the sink takes the event.
C8_AcceptedWhateverTheSink ==
    [][ ( /\ LocalFaceStep
          /\ Matched(last')
          /\ LET times == EntryTimes(file, known_face_names[last'.best_match_index])
             IN \A i \in 1..Len(times) : now - times[i] >= COOLDOWN_SECONDS )
        => ( /\ last'.outcome = "Accepted"
             /\ pc' = "loop"
             /\ LET times == EntryTimes(file', known_face_names[last'.best_match_index])
                IN times # <<>> /\ times[Len(times)] = now' )
      ]_vars

\* C9 as claimed: after load_known_faces no two gallery entries carry the
\* same identity, and an identity's entry is its first image that encodes.
C9_OneEntryPerIdentity ==
    pc # "load" =>
       /\ \A i, j \in 1..Len(known_face_names) :
             i # j => known_face_names[i] # known_face_names[j]
       /\ \A i \in 1..Len(known_face_encodings) :
             LET d == known_face_encodings[i][1]
                 k == known_face_encodings[i][2]
             IN \A m \in 1..(k - 1) : ~roster[d].images[m]

\* C9 as amended: after load_known_faces the gallery holds one entry per
\* image that encodes, in listing order, of every directory whose name
\* does not start with a dot, under the directory's display name.
C9_OneEntryPerEncodedImage ==
    pc # "load" =>
       LET encoded == UNION { { <<d, k>> : k \in { m \in 1..Len(roster[d].images) :
                                                        roster[d].images[m] } } :
                                d \in { e \in 1..Len(roster) :
                                           roster[e].name[1] # "." } }
           n == Len(known_face_encodings)
       IN
       /\ Len(known_face_names) = n
       /\ {known_face_encodings[i] : i \in 1..n} = encoded
       /\ \A i, j \in 1..n :
             i < j =>
                \/ known_face_encodings[i][1] < known_face_encodings[j][1]
                \/ /\ known_face_encodings[i][1] = known_face_encodings[j][1]
                   /\ known_face_encodings[i][2] < known_face_encodings[j][2]
       /\ \A i \in 1..n :
             known_face_names[i] =
                title(replace(roster[known_face_encodings[i][1]].name, "_", " "))

\* C9 witness: a directory with several images that encode gave several
\* entries under one name
C9_Witness ==
    /\ pc = "loop"
    /\ \E i, j \in 1..Len(known_face_names) :
          /\ i < j
          /\ known_face_names[i] = known_face_names[j]
          /\ known_face_encodings[i][1] = known_face_encodings[j][1]

\* C10: the entry selected for a face has the least distance, and of the
\* entries at that distance it has the lowest gallery index; the event that
\* is emitted names that entry.
C10_LowestIndexAtMinimum ==
    last.best_match_index # 0 =>
       LET fd == last.face_distances
           b == last.best_match_index
       IN
       /\ b \in 1..Len(fd)
       /\ \A i \in 1..Len(fd) : fd[b] <= fd[i]
       /\ \A i \in 1..(b - 1) : fd[i] > fd[b]
       /\ (pc = "waiting") => inflight = payload(known_face_names[b])

\* C10 witness: two different identities at the same least distance, the
\* first of them accepted
C10_Witness ==
    /\ Len(last.face_distances) = 2
    /\ known_face_names[1] # known_face_names[2]
    /\ last.face_distances[1] = last.face_distances[2]
    /\ last.best_match_index = 1
    /\ last.outcome = "Accepted"

\* C11: the local log is one header line followed only by lines of the form
\* "name, time", one per accepted event and nothing else (no empty line,
\* no malformed line), in the order of acceptance.
C11_HeaderThenOneLinePerEntry ==
    variant = "local" =>
       LET log_data == readlines(file)
           n == Len(log_data)
       IN
       /\ log_data[1] = Header
       /\ n = 1 + LogCount(file)
       /\ \A i \in 2..n :
             \E name \in GalleryNames : EntryTime(log_data[i], name) # -1
       /\ \A i, j \in 2..n : \A a, b \in GalleryNames :
             (i < j /\ EntryTime(log_data[i], a) # -1
                    /\ EntryTime(log_data[j], b) # -1)
             => EntryTime(log_data[i], a) <= EntryTime(log_data[j], b)

\* the face_id is that of an enrolled student or teacher
Enrolled(f) == f \in face_ids(students) \cup face_ids(teachers)

\* the record mark_attendance stores for a face_id
Present(f) == [person_face_id |-> f, status |-> "Present", timestamp |-> now]

\* C12 as claimed: a request to the attendance endpoint appends exactly one
\* Present record and is answered 201 when, and only when, the posted
\* face_id is at that moment the face_id of an enrolled student or teacher;
\* otherwise it is answered 400 or 404 and the attendance table is unchanged.
C12_RecordedIffEnrolled ==
    [][ \A data \in MarkData :
          Mark(data) =>
            IF "face_id" \in DOMAIN data /\ Enrolled(data.face_id)
            THEN /\ reply' = 201
                 /\ attendance' = Append(attendance, Present(data.face_id))
            ELSE /\ reply' \in {400, 404}
                 /\ attendance' = attendance
      ]_vars

\* C12 as amended: a request to the attendance endpoint appends exactly one
\* Present record and is answered 201 when, and only when, the posted
\* face_id is not empty and is at that moment the face_id of an enrolled
\* student or teacher; a missing or empty face_id is answered 400 (also when
\* a person is enrolled under the empty face_id), an unknown one 404, and
\* both leave the attendance table unchanged.  Hence every record that is
\* added carries a face_id that is enrolled when it is added.
C12_RecordedIffEnrolledNonEmpty ==
    [][ /\ \A data \in MarkData :
             Mark(data) =>
               IF "face_id" \notin DOMAIN data \/ data.face_id = <<>>
               THEN reply' = 400 /\ attendance' = attendance
               ELSE IF Enrolled(data.face_id)
               THEN /\ reply' = 201
                    /\ attendance' = Append(attendance, Present(data.face_id))
               ELSE reply' = 404 /\ attendance' = attendance
        /\ attendance' # attendance =>
             \E f \in FaceIds :
                /\ f # <<>>
                /\ Enrolled(f)
                /\ attendance' = Append(attendance, Present(f))
      ]_vars

\* C12 witness: the table holds the record of a person who was enrolled when
\* it was added and has been removed or re-enrolled under another face_id
\* since, and the last request was refused as unknown
C12_Witness ==
    /\ attendance # <<>>
    /\ ~Enrolled(attendance[1].person_face_id)
    /\ reply = 404

unique_face_ids(table) ==
    \A i, j \in 1..Len(table) : i # j => table[i].face_id # table[j].face_id

\* C13: whatever requests create, update and delete students and teachers, no
\* two students and no two teachers share a face_id; a create whose face_id
\* is that of a stored row, and an update to the face_id of another stored
\* row, are answered 409 and leave every stored row as it was, the name of the
\* row the update addresses included.
C13_FaceIdsStayUnique ==
    [][ /\ unique_face_ids(students')
        /\ unique_face_ids(teachers')
        /\ \A url \in Urls, data \in PostData :
              ( /\ DOMAIN data = {"name", "face_id"}
                /\ data.face_id \in face_ids(TableOf(url))
                /\ Post(url, data) )
              => (reply' = 409 /\ students' = students /\ teachers' = teachers)
        /\ \A url \in Urls, id \in 1..MaxId, data \in PutData :
              ( /\ "face_id" \in DOMAIN data
                /\ \E i, j \in 1..Len(TableOf(url)) :
                      /\ TableOf(url)[i].id = id
                      /\ TableOf(url)[j].id # id
                      /\ TableOf(url)[j].face_id = data.face_id
                /\ Put(url, id, data) )
              => (reply' = 409 /\ students' = students /\ teachers' = teachers)
      ]_vars

\* C13 witness: with two teachers stored, whose names differ, a request was
\* answered 409
C13_Witness ==
    /\ reply = 409
    /\ Len(teachers) = 2
    /\ teachers[1].name # teachers[2].name

=============================================================================
